---- MODULE Spec2Model ----
(***************************************************************************)
(* Model of polars-arrow/src/kernels/ewm/average.rs: the exponentially     *)
(* weighted moving average kernel ewm_mean and its alpha == 1 special      *)
(* case ewm_mean_alpha_equals_one.                                         *)
(*                                                                         *)
(* Floating-point values are modelled in exact arithmetic as normalised    *)
(* fractions <<n, d>> with d > 0, extended with the IEEE special values a  *)
(* division by zero produces: <<1, 0>> is +inf, <<-1, 0>> is -inf and      *)
(* <<0, 0>> is NaN.  Rounding is not modelled, and zero is unsigned (the   *)
(* only zero divisor the kernel can form is a sum, which rounds to +0).    *)
(* Option<T> is modelled as a sequence of length at most one.              *)
(***************************************************************************)
EXTENDS Integers, Sequences, FiniteSets, TLC

\* ---------------------------------------------------------------- bounds
MaxLen == 3
MaxVal == 3
MaxMinPeriods == 4

\* ------------------------------------------------------------ Option<T>
None == <<>>
Some(x) == <<x>>
IsSome(o) == Len(o) = 1
Unwrap(o) == o[1]
UnwrapOr(o, x) == IF IsSome(o) THEN o[1] ELSE x

\* ------------------------------------------------- extended rationals
Abs(n) == IF n < 0 THEN -n ELSE n
Sign(n) == IF n < 0 THEN -1 ELSE IF n > 0 THEN 1 ELSE 0

RECURSIVE GCD(_, _)
GCD(a, b) == IF b = 0 THEN a ELSE GCD(b, a % b)

Norm(n, d) ==
    IF d = 0 THEN <<Sign(n), 0>>
    ELSE LET g == GCD(Abs(n), Abs(d))
             s == Sign(d)
         IN <<(s * n) \div g, (s * d) \div g>>

Zero == <<0, 1>>
One == <<1, 1>>
NaN == <<0, 0>>
IsFinite(a) == a[2] # 0
IsNaN(a) == a = NaN
IsInf(a) == a[2] = 0 /\ a[1] # 0

Neg(a) == <<-a[1], a[2]>>
Add(a, b) ==
    IF IsInf(a) /\ IsInf(b) THEN (IF a = b THEN a ELSE NaN)
    ELSE Norm(a[1] * b[2] + b[1] * a[2], a[2] * b[2])
Sub(a, b) == Add(a, Neg(b))
Mul(a, b) == Norm(a[1] * b[1], a[2] * b[2])
Div(a, b) ==
    LET s == IF b[1] < 0 THEN -1 ELSE 1
    IN Norm(s * a[1] * b[2], s * a[2] * b[1])
\* comparisons, used on finite values only
Less(a, b) == a[1] * b[2] < b[1] * a[2]
Leq(a, b) == a[1] * b[2] <= b[1] * a[2]
is_one(a) == a = One

\* ------------------------------------------------------------ the inputs
Values == {<<v, 1>> : v \in 1..MaxVal}
Observations == {None} \cup {Some(v) : v \in Values}
RECURSIVE SeqsUpTo(_, _)
SeqsUpTo(S, n) ==
    IF n = 0 THEN {<<>>}
    ELSE LET prev == SeqsUpTo(S, n - 1)
         IN prev \cup {Append(s, e) : s \in {p \in prev : Len(p) = n - 1}, e \in S}
Inputs == SeqsUpTo(Observations, MaxLen)
\* decay parameters: 1/2 and 2/3 on the general path, 1 on the fast path,
\* 0 and 2 outside the documented domain (0, 1]
Alphas == {<<0, 1>>, <<1, 2>>, <<2, 3>>, <<1, 1>>, <<2, 1>>}
InDomain(a) == Less(Zero, a) /\ Leq(a, One)

VARIABLES xs, alpha, adjust, min_periods, ignore_na,
          pc, idx, st, non_null_count, out

params == <<xs, alpha, adjust, min_periods, ignore_na>>
vars == <<xs, alpha, adjust, min_periods, ignore_na,
          pc, idx, st, non_null_count, out>>

\* ------------------------------------------------- ewm_mean, general path
\* variant: the adjust flag is not consulted
InitWgtSumZero(adj) == Zero
InitWgtSum(adj) == IF adj THEN Zero ELSE One

\* locals captured by the closure (lines 20-28)
InitState(a, adj) ==
    [one_sub_alpha |-> Sub(One, a),
     opt_mean |-> None,
     non_null_cnt |-> 0,
     current_wgt |-> a,
     wgt_sum |-> InitWgtSum(adj),
     current_one_sub_alpha |-> Sub(One, a)]

\* variant: the old sum is not decayed
UpdateWgtSumNoDecay(s) == Add(s.wgt_sum, s.current_wgt)
UpdateWgtSum(s) == Add(Mul(s.current_one_sub_alpha, s.wgt_sum), s.current_wgt)

CurrMean(prev_mean, x, current_wgt, wgt_sum) ==
    Add(prev_mean, Div(Mul(Sub(x, prev_mean), current_wgt), wgt_sum))

\* the Some(x) branch (lines 31-46)
PresentStep(s, x, a) ==
    LET prev_mean == UnwrapOr(s.opt_mean, x)
        wgt_sum == UpdateWgtSum(s)
        curr_mean == CurrMean(prev_mean, x, s.current_wgt, wgt_sum)
    IN [s EXCEPT !.non_null_cnt = @ + 1,
                 !.wgt_sum = wgt_sum,
                 !.current_wgt = a,
                 !.current_one_sub_alpha = s.one_sub_alpha,
                 !.opt_mean = Some(curr_mean)]

\* variant: ignore_na is not consulted
AbsentStepAlwaysDecay(s, a, ign) ==
    LET current_wgt == Mul(s.current_wgt, a)
    IN [s EXCEPT !.current_wgt = current_wgt,
                 !.current_one_sub_alpha = Sub(One, current_wgt)]
\* variant: an absence also forgets the running mean
AbsentStepDropMean(s, a, ign) ==
    IF ~ign
    THEN LET current_wgt == Mul(s.current_wgt, a)
         IN [s EXCEPT !.current_wgt = current_wgt,
                      !.current_one_sub_alpha = Sub(One, current_wgt),
                      !.opt_mean = None]
    ELSE [s EXCEPT !.opt_mean = None]
\* variant: the operands of the complement are swapped
AbsentStepSwappedComplement(s, a, ign) ==
    IF ~ign
    THEN LET current_wgt == Mul(s.current_wgt, a)
         IN [s EXCEPT !.current_wgt = current_wgt,
                      !.current_one_sub_alpha = Sub(current_wgt, One)]
    ELSE s

\* the None branch (lines 47-53)
AbsentStep(s, a, ign) ==
    IF ~ign
    THEN LET current_wgt == Mul(s.current_wgt, a)
         IN [s EXCEPT !.current_wgt = current_wgt,
                      !.current_one_sub_alpha = Sub(One, current_wgt)]
    ELSE s

\* the state update of the closure (lines 31-53)
MapStep(s, opt_x, a, ign) ==
    IF IsSome(opt_x) THEN PresentStep(s, Unwrap(opt_x), a)
    ELSE AbsentStep(s, a, ign)

\* variant: the threshold comparison is off by one
EmitOffByOne(cnt, mp, opt_mean) == IF cnt <= mp THEN None ELSE opt_mean
\* the value the closure returns (lines 54-57)
Emit(cnt, mp, opt_mean) == IF cnt < mp THEN None ELSE opt_mean

\* variant: absent items are dropped from the array
CollectDropAbsent(acc, item) == IF item = None THEN acc ELSE Append(acc, item)
\* collect_trusted: one output entry per item of the iterator (line 59)
Collect(acc, item) == Append(acc, item)

\* ----------------------------------------------- ewm_mean_alpha_equals_one
FastCount(cnt, opt_x) == IF IsSome(opt_x) THEN cnt + 1 ELSE cnt
FastEmit(cnt, mp, opt_x) == IF cnt < mp THEN None ELSE opt_x

\* ------------------------------------------------------------------ Init
Init ==
    /\ xs \in Inputs
    /\ alpha \in Alphas
    /\ adjust \in BOOLEAN
    /\ min_periods \in 0..MaxMinPeriods
    /\ ignore_na \in BOOLEAN
    /\ pc = "call"
    /\ idx = 1
    /\ st = InitState(alpha, adjust)
    /\ non_null_count = 0
    /\ out = <<>>

\* ewm_mean, lines 16-18: alpha == 1 goes to the special case
EnterFastPath ==
    /\ pc = "call"
    /\ is_one(alpha)
    /\ pc' = "fast"
    /\ non_null_count' = 0
    /\ UNCHANGED <<params, idx, st, out>>

\* ewm_mean, lines 20-28: set up the recurrence state
EnterGeneral ==
    /\ pc = "call"
    /\ ~is_one(alpha)
    /\ pc' = "general"
    /\ st' = InitState(alpha, adjust)
    /\ UNCHANGED <<params, idx, non_null_count, out>>

\* one call of the closure of ewm_mean on the next item (lines 30-58)
GeneralNext(opt_x) ==
    /\ pc = "general"
    /\ idx <= Len(xs)
    /\ xs[idx] = opt_x
    /\ LET s2 == MapStep(st, opt_x, alpha, ignore_na)
       IN /\ st' = s2
          /\ out' = Collect(out, Emit(s2.non_null_cnt, min_periods, s2.opt_mean))
    /\ idx' = idx + 1
    /\ UNCHANGED <<params, pc, non_null_count>>

MapPresent == \E x \in Values : GeneralNext(Some(x))
MapAbsentDecay == ~ignore_na /\ GeneralNext(None)
MapAbsentIgnored == ignore_na /\ GeneralNext(None)

\* one call of the closure of ewm_mean_alpha_equals_one (lines 72-80)
FastNext ==
    /\ pc = "fast"
    /\ idx <= Len(xs)
    /\ LET cnt == FastCount(non_null_count, xs[idx])
       IN /\ non_null_count' = cnt
          /\ out' = Collect(out, FastEmit(cnt, min_periods, xs[idx]))
    /\ idx' = idx + 1
    /\ UNCHANGED <<params, pc, st>>

\* the iterator is exhausted and the array is returned (lines 59, 81)
Return ==
    /\ pc \in {"general", "fast"}
    /\ idx > Len(xs)
    /\ pc' = "done"
    /\ UNCHANGED <<params, idx, st, non_null_count, out>>

Next ==
    \/ EnterFastPath
    \/ EnterGeneral
    \/ MapPresent
    \/ MapAbsentDecay
    \/ MapAbsentIgnored
    \/ FastNext
    \/ Return

Spec == Init /\ [][Next]_vars

TypeOK ==
    /\ xs \in Inputs
    /\ pc \in {"call", "general", "fast", "done"}
    /\ idx \in 1..(Len(xs) + 1)

\* --------------------------------------------- reference computations
InGeneralDomain(a) == Less(Zero, a) /\ Less(a, One)
CountPresent(s, i) == Cardinality({k \in 1..i : IsSome(s[k])})
NoAbsent(s) == \A k \in 1..Len(s) : IsSome(s[k])
LastPresent(s, i) == CHOOSE k \in 1..i :
    /\ IsSome(s[k])
    /\ \A m \in (k + 1)..i : ~IsSome(s[m])

\* lines 20-59 of ewm_mean as a function of the whole input
RECURSIVE RunFrom(_, _, _, _, _, _)
RunFrom(s, acc, rest, a, mp, ign) ==
    IF rest = <<>> THEN acc
    ELSE LET s2 == MapStep(s, Head(rest), a, ign)
         IN RunFrom(s2, Collect(acc, Emit(s2.non_null_cnt, mp, s2.opt_mean)),
                    Tail(rest), a, mp, ign)
GeneralRecurrence(s, a, adj, mp, ign) ==
    RunFrom(InitState(a, adj), <<>>, s, a, mp, ign)

\* lines 70-81 of ewm_mean_alpha_equals_one as a function of the whole input
RECURSIVE FastFrom(_, _, _, _)
FastFrom(cnt, acc, rest, mp) ==
    IF rest = <<>> THEN acc
    ELSE LET c2 == FastCount(cnt, Head(rest))
         IN FastFrom(c2, Collect(acc, FastEmit(c2, mp, Head(rest))), Tail(rest), mp)
FastRecurrence(s, mp) == FastFrom(0, <<>>, s, mp)

EwmMean(s, a, adj, mp, ign) ==
    IF is_one(a) THEN FastRecurrence(s, mp) ELSE GeneralRecurrence(s, a, adj, mp, ign)

RECURSIVE Pow(_, _)
Pow(a, n) == IF n = 0 THEN One ELSE Mul(a, Pow(a, n - 1))

\* sum over i = 0..n of (1 - a)^i * x[t - i], and the sum of the weights alone
RECURSIVE WeightedSum(_, _, _, _)
WeightedSum(s, a, t, n) ==
    LET term == Mul(Pow(Sub(One, a), n), Unwrap(s[t - n]))
    IN IF n = 0 THEN term ELSE Add(term, WeightedSum(s, a, t, n - 1))
RECURSIVE WeightTotal(_, _)
WeightTotal(a, n) ==
    IF n = 0 THEN One ELSE Add(Pow(Sub(One, a), n), WeightTotal(a, n - 1))

\* the outputs at the positions whose input is present
RECURSIVE AtPresent(_, _)
AtPresent(s, o) ==
    IF s = <<>> THEN <<>>
    ELSE IF IsSome(Head(s)) THEN <<Head(o)>> \o AtPresent(Tail(s), Tail(o))
    ELSE AtPresent(Tail(s), Tail(o))
IsSomeObs(o) == IsSome(o)
DropAbsent(s) == SelectSeq(s, IsSomeObs)

Half == <<1, 2>>
Seq123 == <<Some(<<1, 1>>), Some(<<2, 1>>), Some(<<3, 1>>)>>

\* ------------------------------------------------------------- claims

\* C1: for every valid parameter combination the output has one entry per
\* consumed input (so the returned array is as long as the input), and the
\* entry at position i is the one the kernel computes from the inputs up to
\* position i, on the general path and on the alpha == 1 path.
C1_LengthPreserved ==
    InDomain(alpha) =>
        /\ Len(out) = idx - 1
        /\ pc = "done" => Len(out) = Len(xs)
        /\ \A i \in 1..Len(out) :
              out[i] = EwmMean(SubSeq(xs, 1, i), alpha, adjust, min_periods, ignore_na)[i]
C1_Witness ==
    /\ pc = "done"
    /\ InGeneralDomain(alpha)
    /\ Len(xs) = 3
    /\ Len(out) = 3
    /\ out[1] = None
    /\ IsSome(out[3])

\* C2: an output is absent wherever the number of present inputs so far is
\* below min_periods; once that number has reached min_periods no later
\* output is masked (the general path emits the mean, the alpha == 1 path
\* forwards the observation), also at absent inputs; and if min_periods
\* exceeds the number of present inputs every output is absent.
C2_Unmasked(j) ==
    IF is_one(alpha) THEN out[j] = xs[j]
    ELSE CountPresent(xs, j) >= 1 => IsSome(out[j])
C2_MinPeriodsMasking ==
    InDomain(alpha) =>
        /\ \A i \in 1..Len(out) :
              CountPresent(xs, i) < min_periods => out[i] = None
        /\ \A i \in 1..Len(out) : \A j \in i..Len(out) :
              CountPresent(xs, i) >= min_periods => C2_Unmasked(j)
        /\ min_periods > CountPresent(xs, Len(xs)) =>
              \A i \in 1..Len(out) : out[i] = None
C2_Witness ==
    /\ pc = "done"
    /\ InGeneralDomain(alpha)
    /\ min_periods = 2
    /\ Len(xs) = 3
    /\ xs[3] = None
    /\ out[1] = None
    /\ IsSome(out[2])
    /\ IsSome(out[3])

\* C3: the array returned by the alpha == 1 special case equals, in presence
\* and in value, the array the general recurrence yields when run with
\* alpha = 1.
C3_FastPathIsGeneralRecurrence ==
    (pc = "done" /\ is_one(alpha)) =>
        out = GeneralRecurrence(xs, One, adjust, min_periods, ignore_na)

\* C4: with adjust = false, 0 < alpha < 1, min_periods = 0 and no absent
\* input, output[0] = x_0 and output[t] = alpha * x_t + (1 - alpha) *
\* output[t-1]; alpha = 1/2 on [1, 2, 3] gives [1, 3/2, 9/4].
C4_Unadjusted ==
    (~adjust /\ InGeneralDomain(alpha) /\ min_periods = 0 /\ NoAbsent(xs)) =>
        /\ \A t \in 1..Len(out) :
              out[t] = Some(IF t = 1 THEN Unwrap(xs[1])
                            ELSE Add(Mul(alpha, Unwrap(xs[t])),
                                     Mul(Sub(One, alpha), Unwrap(out[t - 1]))))
        /\ (pc = "done" /\ alpha = Half /\ xs = Seq123) =>
              out = <<Some(<<1, 1>>), Some(<<3, 2>>), Some(<<9, 4>>)>>
C4_Witness ==
    /\ pc = "done"
    /\ ~adjust
    /\ alpha = Half
    /\ min_periods = 0
    /\ xs = Seq123
    /\ out[3] = Some(<<9, 4>>)

\* C5: with adjust = true, 0 < alpha < 1, min_periods = 0 and no absent
\* input, output[t] is the sum of (1 - alpha)^i * x_{t-i} divided by the sum
\* of (1 - alpha)^i over i = 0..t; alpha = 1/2 on [1, 2, 3] gives
\* [1, 5/3, 17/7].
C5_Adjusted ==
    (adjust /\ InGeneralDomain(alpha) /\ min_periods = 0 /\ NoAbsent(xs)) =>
        /\ \A t \in 1..Len(out) :
              out[t] = Some(Div(WeightedSum(xs, alpha, t, t - 1),
                                WeightTotal(alpha, t - 1)))
        /\ (pc = "done" /\ alpha = Half /\ xs = Seq123) =>
              out = <<Some(<<1, 1>>), Some(<<5, 3>>), Some(<<17, 7>>)>>
C5_Witness ==
    /\ pc = "done"
    /\ adjust
    /\ alpha = Half
    /\ min_periods = 0
    /\ xs = Seq123
    /\ out[3] = Some(<<17, 7>>)

\* C6: for every alpha in (0, 1] the output at position i is present exactly
\* when the number of present inputs among positions 0..i is at least
\* min_periods and at least one.
C6_PresentIff ==
    InDomain(alpha) =>
        \A i \in 1..Len(out) :
            IsSome(out[i]) <=>
                (CountPresent(xs, i) >= min_periods /\ CountPresent(xs, i) >= 1)

\* C7: a call with alpha <= 0 or alpha > 1 is rejected at the boundary: the
\* recurrence never runs and no output sequence is produced.
C7_OutOfDomainRejected ==
    ~InDomain(alpha) => (pc = "call" /\ out = <<>>)

\* C8: on the general path with ignore_na = true an absent observation
\* changes none of the recurrence state, so the outputs at the present
\* positions are those of the same call on the input with its absent
\* entries removed.
C8_IgnoredAbsenceFrame ==
    /\ [][(/\ pc = "general"
           /\ InGeneralDomain(alpha)
           /\ ignore_na
           /\ idx <= Len(xs)
           /\ xs[idx] = None) => st' = st]_vars
    /\ []((pc = "done" /\ InGeneralDomain(alpha) /\ ignore_na) =>
            AtPresent(xs, out) =
                GeneralRecurrence(DropAbsent(xs), alpha, adjust, min_periods, ignore_na))
C8_Witness ==
    /\ pc = "done"
    /\ InGeneralDomain(alpha)
    /\ ignore_na
    /\ Len(xs) = 3
    /\ IsSome(xs[1])
    /\ xs[2] = None
    /\ IsSome(xs[3])
    /\ IsSome(out[3])

\* C9: on the general path, at an absent input where min_periods is
\* satisfied and a present input precedes, the output is present and equals
\* the output at the most recent present position; an absent observation
\* never changes current_mean.
C9_HoldAcrossAbsences ==
    /\ [](InGeneralDomain(alpha) =>
            \A i \in 1..Len(out) :
                (/\ xs[i] = None
                 /\ CountPresent(xs, i) >= min_periods
                 /\ CountPresent(xs, i) >= 1) =>
                    /\ IsSome(out[i])
                    /\ out[i] = out[LastPresent(xs, i)])
    /\ [][(/\ pc = "general"
           /\ InGeneralDomain(alpha)
           /\ idx <= Len(xs)
           /\ xs[idx] = None) => st'.opt_mean = st.opt_mean]_vars
C9_Witness ==
    /\ pc = "done"
    /\ InGeneralDomain(alpha)
    /\ ~ignore_na
    /\ min_periods = 1
    /\ Len(xs) = 3
    /\ IsSome(xs[1])
    /\ xs[2] = None
    /\ xs[3] = None
    /\ IsSome(out[3])
    /\ out[3] = out[1]

\* C10: for 0 < alpha < 1, whenever a present observation is processed the
\* weight it is given is positive and the updated weight_sum, the divisor of
\* the mean update, is at least that weight.
C10_DivisorPositive ==
    [][(/\ pc = "general"
        /\ InGeneralDomain(alpha)
        /\ idx <= Len(xs)
        /\ IsSome(xs[idx])) =>
            /\ Less(Zero, st.current_wgt)
            /\ Leq(st.current_wgt, st'.wgt_sum)]_vars
C10_Witness ==
    /\ pc = "general"
    /\ InGeneralDomain(alpha)
    /\ ~ignore_na
    /\ idx = 4
    /\ IsSome(xs[1])
    /\ xs[2] = None
    /\ IsSome(xs[3])
    /\ Less(Zero, st.wgt_sum)
====
